---------------------------- MODULE Spec2Model ----------------------------
(***************************************************************************)
(* Model of the Sudoku benchmark-log summarizers:                          *)
(*   stats.py        RunningStat (Welford accumulator)                     *)
(*   summarize.py    (SudokuCore)  strategy report                         *)
(*   summarize.py    (SudokuStats) generator-comparison report             *)
(*   improper.py     improper-puzzle report                                *)
(*   pathological.py filter of pathological log lines                      *)
(*                                                                         *)
(* Python floats are modelled as exact rationals <<num, den>> (den > 0,    *)
(* lowest terms): rounding is not modelled.  A text field is a record      *)
(* [t, n, d]: t = "int" for the text of the integer n, t = "dec" for the   *)
(* text of a decimal such as "150.0" or "2.5" with the value n/d (float()  *)
(* converts it, int() does not), t = "txt" for text that is not a number.  *)
(***************************************************************************)
EXTENDS Integers, Sequences, FiniteSets, TLC

VARIABLES
  stat, xs,               \* RunningStat under test, values appended to it
  results, ppc, plines, printed,  \* pathological.py: results list, control
                                  \* point, lines read from stdin, lines printed

  prog,                   \* which summarizer runs
  pc, exc,                \* control point of main, exception raised if any
  head,                   \* the head of the input file (marker and header line)
  consumed,               \* body lines read from the file so far
  strategies,             \* SudokuCore ConstructData: strategy names
  generatorIds,           \* SudokuStats ConstructData: generator ids
  max_solns,              \* improper ConstructData
  detailed, steps, per_step, total,   \* SudokuCore SummarizeLines
  symmetries, generators, \* SudokuStats SummarizeLines (symmetries: improper too)
  all,                    \* improper SummarizeLines
  data,                   \* the dict ConstructData returns
  written                 \* the output file has been written

statVars == <<stat, xs>>
pathVars == <<results, ppc, plines, printed>>
schemaVars == <<strategies, generatorIds, max_solns>>
aggVars == <<detailed, steps, per_step, total, symmetries, generators, all>>
sumVars == <<prog, pc, exc, head, consumed, schemaVars, aggVars, data, written>>
vars == <<statVars, pathVars, sumVars>>

\* Values of the variables of the programs a specification does not run.
StatIdle == stat = [k |-> 0, m |-> <<0, 1>>, s |-> <<0, 1>>] /\ xs = <<>>
PathIdle == results = <<>> /\ ppc = "idle" /\ plines = <<>> /\ printed = <<>>
SumIdle ==
  /\ prog = "none" /\ pc = "idle" /\ exc = "none" /\ head = <<>> /\ consumed = <<>>
  /\ strategies = <<>> /\ generatorIds = <<>> /\ max_solns = 0
  /\ detailed = <<>> /\ steps = <<>> /\ per_step = <<>> /\ total = <<>>
  /\ symmetries = <<>> /\ generators = <<>> /\ all = <<>>
  /\ data = <<>> /\ written = FALSE

-----------------------------------------------------------------------------
(* Rational arithmetic standing for Python float arithmetic.               *)

Abs(a) == IF a < 0 THEN -a ELSE a

RECURSIVE GCD(_, _)
GCD(a, b) == IF b = 0 THEN a ELSE GCD(b, a % b)

Norm(q) ==
  LET sg == IF q[2] < 0 THEN -1 ELSE 1
      g  == GCD(Abs(q[1]), Abs(q[2]))
  IN  IF q[1] = 0 THEN <<0, 1>> ELSE <<(sg * q[1]) \div g, (sg * q[2]) \div g>>

Rat(i)     == <<i, 1>>
RAdd(a, b) == Norm(<<a[1] * b[2] + b[1] * a[2], a[2] * b[2]>>)
RSub(a, b) == Norm(<<a[1] * b[2] - b[1] * a[2], a[2] * b[2]>>)
RMul(a, b) == Norm(<<a[1] * b[1], a[2] * b[2]>>)
RDiv(a, b) == Norm(<<a[1] * b[2], a[2] * b[1]>>)
RLess(a, b) == a[1] * b[2] < b[1] * a[2]

-----------------------------------------------------------------------------
(* stats.py: class RunningStat                                             *)

RunningStat == [k |-> 0, m |-> Rat(0), s |-> Rat(0)]

len(st) == st.k

\* the accumulated sum uses the previous mean in both factors
appendOldMean(st, x) ==
  LET k      == st.k + 1
      prev_m == st.m
      m      == RAdd(prev_m, RDiv(RSub(x, prev_m), Rat(k)))
  IN  [k |-> k, m |-> m, s |-> RAdd(st.s, RMul(RSub(x, prev_m), RSub(x, prev_m)))]

append(st, x) ==
  LET k      == st.k + 1
      prev_m == st.m
      m      == RAdd(prev_m, RDiv(RSub(x, prev_m), Rat(k)))
  IN  [k |-> k, m |-> m, s |-> RAdd(st.s, RMul(RSub(x, prev_m), RSub(x, m)))]

mean(st) == st.m

variance(st) == IF st.k > 1 THEN RDiv(st.s, Rat(st.k - 1)) ELSE Rat(0)

-----------------------------------------------------------------------------
(* Text fields and their conversions.                                      *)

IntF(i)    == [t |-> "int", n |-> i, d |-> 1]
DecF(n, d) == [t |-> "dec", n |-> n, d |-> d]
\* text that is no number; n names the text (IdChars)
TxtF(r)    == [t |-> "txt", n |-> r, d |-> 1]

\* int(text) succeeds on the text of an integer only
IntOk(f)   == f.t = "int"
\* float(text) succeeds on the text of any number
FloatOk(f) == f.t \in {"int", "dec"}
float(f)   == Norm(<<f.n, f.d>>)

\* the characters of a text are their ASCII codes
RECURSIVE Digits(_)
Digits(n) == IF n < 10 THEN <<48 + n>> ELSE Digits(n \div 10) \o <<48 + (n % 10)>>

\* the characters of IdText(r): "classic", "rotational_4", "x"
IdChars(r) ==
  IF r = 1 THEN <<99, 108, 97, 115, 115, 105, 99>>
  ELSE IF r = 2 THEN <<114, 111, 116, 97, 116, 105, 111, 110, 97, 108, 95, 52>>
  ELSE <<120>>

\* the field as line.split("\t") yields it: a string.  An integer is its
\* decimal digits, a decimal has one digit after the point (every DecF in
\* use has a denominator that divides 10)
FieldText(f) ==
  LET sign == IF f.n < 0 THEN <<45>> ELSE <<>>
      m    == Abs(f.n)
  IN  CASE f.t = "int" -> sign \o Digits(m)
        [] f.t = "dec" -> sign \o Digits(m \div f.d) \o <<46>>
                               \o Digits(((m * 10) \div f.d) % 10)
        [] OTHER       -> IdChars(f.n)

\* str < str of Python 2: the first differing character decides, and a
\* proper prefix is the smaller string
StrLess(a, b) ==
  \/ \E i \in 1..Len(a) :
        i <= Len(b) /\ a[i] < b[i] /\ \A j \in 1..(i - 1) : a[j] = b[j]
  \/ Len(a) < Len(b) /\ SubSeq(b, 1, Len(a)) = a

\* range(start, stop, 2) as a sequence
Range2(start, stop) ==
  [i \in 1..(IF stop > start THEN (stop - start + 1) \div 2 ELSE 0) |-> start + 2 * (i - 1)]

RECURSIVE SumSeq(_)
SumSeq(q) == IF q = <<>> THEN 0 ELSE Head(q) + SumSeq(Tail(q))

-----------------------------------------------------------------------------
(* pathological.py: main                                                   *)

SlowLimit  == 32
PathLimit  == 500

\* steps = [int(fields[i]) for i in range(3, len(fields), 2)]; fields is
\* 1-based here, so Python's fields[i] is fields[i + 1]
StepIdx(fields) == Range2(3, Len(fields))
StepsOk(fields) == \A j \in DOMAIN StepIdx(fields) : IntOk(fields[StepIdx(fields)[j] + 1])
Steps(fields)   == [j \in DOMAIN StepIdx(fields) |-> fields[StepIdx(fields)[j] + 1].n]

SlowSteps(ss) == SelectSeq(ss, LAMBDA v : v > SlowLimit)
slow_count(ss) == Len(SlowSteps(ss))
\* Python 2: / on two ints is floor division
avg_slow(ss) == SumSeq(SlowSteps(ss)) \div slow_count(ss)

\* the line raises: ValueError from int(), or ZeroDivisionError when no step
\* count is above 32
PathRaises(fields) == ~StepsOk(fields) \/ slow_count(Steps(fields)) = 0

Pathological(fields) ==
  slow_count(Steps(fields)) * avg_slow(Steps(fields)) > PathLimit

Result(fields) ==
  <<avg_slow(Steps(fields)), slow_count(Steps(fields)), fields[1], fields[2], fields[3]>>

\* tuple order of Python on (int, int, str, str, str): the first two
\* positions compare as numbers, the last three as strings
ResultLess(a, b) ==
  LET ta == [i \in 3..5 |-> FieldText(a[i])]
      tb == [i \in 3..5 |-> FieldText(b[i])]
  IN  \/ a[1] < b[1]
      \/ a[1] = b[1] /\ a[2] < b[2]
      \/ /\ a[1] = b[1] /\ a[2] = b[2]
         /\ \E i \in 3..5 : StrLess(ta[i], tb[i]) /\ \A j \in 3..(i - 1) : ta[j] = tb[j]

RECURSIVE InsertDesc(_, _)
InsertDesc(sorted, r) ==
  IF sorted = <<>> THEN <<r>>
  ELSE IF ResultLess(Head(sorted), r) THEN <<r>> \o sorted
  ELSE <<Head(sorted)>> \o InsertDesc(Tail(sorted), r)

\* sorted(results, reverse=True)
RECURSIVE SortedReverse(_)
SortedReverse(rs) ==
  IF rs = <<>> THEN <<>>
  ELSE InsertDesc(SortedReverse(SubSeq(rs, 1, Len(rs) - 1)), rs[Len(rs)])

MaxPathLines == 2

PathLine(name, ss) == <<name, TxtF(0), TxtF(0)>> \o ss

\* first fields: two texts and two numbers whose order as strings, "9" above
\* "10", is not their order as numbers
PathNames == { TxtF(1), TxtF(2), IntF(9), IntF(10) }

StepLists ==
  { <<IntF(600), IntF(7)>>,               \* one slow step: kept
    <<IntF(40), IntF(7), IntF(50)>>,      \* 2 * 45: dropped
    <<IntF(251), IntF(1), IntF(250)>>,    \* 2 * (501 / 2) = 500: dropped
    <<IntF(300), IntF(1), IntF(301), IntF(1)>>,  \* 2 * 300: kept
    <<IntF(10), IntF(7), IntF(20)>>,      \* no slow step
    <<>>,                                 \* no step column at all
    <<TxtF(9), IntF(7)>> }                \* a step count that is no number

PathLines == { PathLine(nm, st) : nm \in PathNames, st \in StepLists }

PathInit ==
  /\ results = <<>> /\ ppc = "scan" /\ plines = <<>> /\ printed = <<>>
  /\ StatIdle /\ SumIdle

\* one iteration of `for line in sys.stdin`
PathReadLine ==
  /\ ppc = "scan"
  /\ Len(plines) < MaxPathLines
  /\ \E fields \in PathLines :
       /\ plines' = Append(plines, fields)
       /\ IF PathRaises(fields)
          THEN ppc' = "raised" /\ UNCHANGED results
          ELSE /\ ppc' = "scan"
               /\ results' = IF Pathological(fields)
                             THEN Append(results, Result(fields))
                             ELSE results
  /\ UNCHANGED <<printed, statVars, sumVars>>

\* stdin is exhausted: the sorted results are printed
PathPrint ==
  /\ ppc = "scan"
  /\ printed' = SortedReverse(results)
  /\ ppc' = "done"
  /\ UNCHANGED <<results, plines, statVars, sumVars>>

PathNext == PathReadLine \/ PathPrint

PathSpec == PathInit /\ [][PathNext]_vars

NoSlowStep(fields) == StepsOk(fields) /\ slow_count(Steps(fields)) = 0

\* C10: every line is processed to completion: a line with no step count
\* above 32 is discarded without failing and the scan goes on; a line is kept
\* exactly when count * integer average of its slow steps exceeds 500.
C10_NoSlowLineIsDiscarded ==
  /\ \A i \in 1..Len(plines) :
       NoSlowStep(plines[i]) => ~(ppc = "raised" /\ i = Len(plines))
  /\ ppc = "done" =>
       printed = SortedReverse(SelectSeq(plines,
                   LAMBDA f : StepsOk(f) /\ slow_count(Steps(f)) > 0 /\ Pathological(f)))

-----------------------------------------------------------------------------
(* A RunningStat fed one value at a time.                                  *)

MaxLen == 4

Samples == {Rat(10), Rat(20), <<-1, 2>>}

StatInit == stat = RunningStat /\ xs = <<>> /\ PathIdle /\ SumIdle

AppendValue ==
  /\ Len(xs) < MaxLen
  /\ \E x \in Samples :
       /\ stat' = append(stat, x)
       /\ xs' = Append(xs, x)
  /\ UNCHANGED <<pathVars, sumVars>>

StatNext == AppendValue

StatSpec == StatInit /\ [][StatNext]_vars

RECURSIVE RSum(_)
RSum(q) == IF q = <<>> THEN Rat(0) ELSE RAdd(Head(q), RSum(Tail(q)))

BatchMean(q) == RDiv(RSum(q), Rat(Len(q)))

RECURSIVE SqDev(_, _)
SqDev(q, mu) ==
  IF q = <<>> THEN Rat(0)
  ELSE RAdd(RMul(RSub(Head(q), mu), RSub(Head(q), mu)), SqDev(Tail(q), mu))

BatchVariance(q) == RDiv(SqDev(q, BatchMean(q)), Rat(Len(q) - 1))

\* C1: after appending x_1..x_n to a fresh RunningStat, len is n, the mean is
\* the arithmetic mean (n >= 1), the variance is the sample variance with
\* divisor n-1 (n >= 2) and exactly 0 when n <= 1; 10 then 20 gives 15 and 50.
C1_WelfordMatchesBatch ==
  /\ len(stat) = Len(xs)
  /\ Len(xs) >= 1 => mean(stat) = BatchMean(xs)
  /\ Len(xs) >= 2 => variance(stat) = BatchVariance(xs)
  /\ Len(xs) <= 1 => variance(stat) = Rat(0)
  /\ xs = <<Rat(10), Rat(20)>> => mean(stat) = Rat(15) /\ variance(stat) = Rat(50)

C1_Witness ==
  /\ xs = <<Rat(10), Rat(20), <<-1, 2>>>>
  /\ len(stat) = 3
  /\ mean(stat) = <<59, 6>>

-----------------------------------------------------------------------------
(* Dictionaries (dict, defaultdict) as functions with a finite domain.     *)

EmptyDict == <<>>

\* defaultdict lookup: the stored value, or a fresh default
Get(f, key, default) == IF key \in DOMAIN f THEN f[key] ELSE default

Put(f, key, v) == [x \in (DOMAIN f) \cup {key} |-> IF x = key THEN v ELSE f[x]]

Min(S) == CHOOSE x \in S : \A y \in S : x <= y

\* sorted(d.keys()) for integer keys
RECURSIVE SortedKeysOf(_)
SortedKeysOf(S) ==
  IF S = {} THEN <<>> ELSE <<Min(S)>> \o SortedKeysOf(S \ {Min(S)})

SortedKeys(f) == SortedKeysOf(DOMAIN f)

\* sorted(d.items())
SortedItems(f) == [i \in 1..Len(SortedKeys(f)) |-> <<SortedKeys(f)[i], f[SortedKeys(f)[i]]>>]

\* RunningStat.count_formatted: "{:n}".format(k); below 1000 the en_US
\* grouping adds nothing and the text is the decimal numeral
count_formatted(st) == ToString(st.k)

-----------------------------------------------------------------------------
(* The head of an input file: up to two lines before the body.             *)
(*   lines  how many of the two head lines the file has (0, 1, 2)          *)
(*   marker the first line starts with "Generating"                        *)
(*   maxs   the number N of a "(N," in the first line, -1 when it has none *)
(*   cols   the tab-separated columns of the second line, each the text    *)
(*          id:tag (tag "" when the column has no colon)                   *)
(* The second line ends with a newline, which split() leaves on its last   *)
(* column.                                                                 *)

Col(id, tag) == [id |-> id, tag |-> tag]

FileHead(lines, marker, maxs, cols) ==
  [lines |-> lines, marker |-> marker, maxs |-> maxs, cols |-> cols]

\* h.endswith(":" + tag) for column i of the header line
EndsWith(cols, i, tag) == cols[i].tag = tag /\ i < Len(cols)

\* [h.split(":")[0] for h in headers if h.endswith(":" + tag)]
IdsWithTag(cols, tag) ==
  LET keep == SelectSeq([i \in 1..Len(cols) |-> i], LAMBDA i : EndsWith(cols, i, tag))
  IN  [j \in 1..Len(keep) |-> cols[keep[j]].id]

\* the exception, if any, of the first lines of ConstructData:
\*   line = file_in.next(); startswith("Generating"); line = file_in.next()
HeadOutcome(h) ==
  IF h.lines = 0 THEN "StopIteration"
  ELSE IF ~h.marker THEN "Usage"
  ELSE IF h.lines = 1 THEN "StopIteration"
  ELSE "none"

MaxLines == 2

NoData == [count |-> "", when |-> "none"]
mtime  == "st_mtime"

-----------------------------------------------------------------------------
(* SudokuCore summarize.py                                                 *)

NewDetails == [steps |-> RunningStat, per_step |-> RunningStat,
               overall |-> RunningStat, by_steps |-> EmptyDict]

\* as StrategyAppend, without steps[n].append(num_steps)
StrategyAppendNoSteps(agg, n, num_solutions, num_steps, micros) ==
  LET micros_per_step == IF num_steps > 0 THEN RDiv(micros, Rat(num_steps)) ELSE micros
      old == Get(agg.detailed[n + 1], num_solutions,
                 [steps |-> RunningStat, per_step |-> RunningStat,
                  overall |-> RunningStat, by_steps |-> <<>>])
      new == [steps    |-> append(old.steps, Rat(num_steps)),
              per_step |-> append(old.per_step, micros_per_step),
              overall  |-> append(old.overall, micros),
              by_steps |-> Put(old.by_steps, num_steps,
                               append(Get(old.by_steps, num_steps, RunningStat), micros))]
  IN  [detailed |-> [agg.detailed EXCEPT ![n + 1] = Put(@, num_solutions, new)],
       steps    |-> agg.steps,
       per_step |-> [agg.per_step EXCEPT ![n + 1] = append(@, micros_per_step)],
       total    |-> [agg.total EXCEPT ![n + 1] = append(@, micros)],
       exc      |-> "none"]

\* as StrategyAppend, with by_steps[num_steps] set to a new RunningStat
\* holding the one value
StrategyAppendOverwrite(agg, n, num_solutions, num_steps, micros) ==
  LET micros_per_step == IF num_steps > 0 THEN RDiv(micros, Rat(num_steps)) ELSE micros
      old == Get(agg.detailed[n + 1], num_solutions,
                 [steps |-> RunningStat, per_step |-> RunningStat,
                  overall |-> RunningStat, by_steps |-> <<>>])
      new == [steps    |-> append(old.steps, Rat(num_steps)),
              per_step |-> append(old.per_step, micros_per_step),
              overall  |-> append(old.overall, micros),
              by_steps |-> Put(old.by_steps, num_steps, append(RunningStat, micros))]
  IN  [detailed |-> [agg.detailed EXCEPT ![n + 1] = Put(@, num_solutions, new)],
       steps    |-> [agg.steps EXCEPT ![n + 1] = append(@, Rat(num_steps))],
       per_step |-> [agg.per_step EXCEPT ![n + 1] = append(@, micros_per_step)],
       total    |-> [agg.total EXCEPT ![n + 1] = append(@, micros)],
       exc      |-> "none"]

\* the body of `for n in range(nstrategies)` for one n, after its fields
\* were converted
StrategyAppend(agg, n, num_solutions, num_steps, micros) ==
  LET micros_per_step == IF num_steps > 0 THEN RDiv(micros, Rat(num_steps)) ELSE micros
      old == Get(agg.detailed[n + 1], num_solutions, NewDetails)
      new == [steps    |-> append(old.steps, Rat(num_steps)),
              per_step |-> append(old.per_step, micros_per_step),
              overall  |-> append(old.overall, micros),
              by_steps |-> Put(old.by_steps, num_steps,
                               append(Get(old.by_steps, num_steps, RunningStat), micros))]
  IN  [detailed |-> [agg.detailed EXCEPT ![n + 1] = Put(@, num_solutions, new)],
       steps    |-> [agg.steps EXCEPT ![n + 1] = append(@, Rat(num_steps))],
       per_step |-> [agg.per_step EXCEPT ![n + 1] = append(@, micros_per_step)],
       total    |-> [agg.total EXCEPT ![n + 1] = append(@, micros)],
       exc      |-> "none"]

\* strategies n, n+1, ... of one line; stops at the first exception
RECURSIVE StrategyFrom(_, _, _, _, _)
StrategyFrom(agg, fields, n, nstrategies, num_solutions) ==
  LET offset == 2 * n + 5 IN
  IF n >= nstrategies THEN agg
  ELSE IF Len(fields) < offset + 1 THEN [agg EXCEPT !.exc = "IndexError"]
  ELSE IF ~IntOk(fields[offset + 1]) THEN [agg EXCEPT !.exc = "ValueError"]
  ELSE IF Len(fields) < offset + 2 THEN [agg EXCEPT !.exc = "IndexError"]
  ELSE IF ~FloatOk(fields[offset + 2]) THEN [agg EXCEPT !.exc = "ValueError"]
  ELSE StrategyFrom(
         StrategyAppend(agg, n, num_solutions, fields[offset + 1].n, float(fields[offset + 2])),
         fields, n + 1, nstrategies, num_solutions)

\* as StrategySummarizeLine, with a line that raises skipped
StrategySummarizeLineSkip(agg, fields, nstrategies) ==
  LET r == IF Len(fields) < 5 THEN [agg EXCEPT !.exc = "IndexError"]
           ELSE IF ~IntOk(fields[5]) THEN [agg EXCEPT !.exc = "ValueError"]
           ELSE StrategyFrom(agg, fields, 0, nstrategies, fields[5].n)
  IN  IF r.exc = "none" THEN r ELSE agg

\* one iteration of `for line in lines` of SummarizeLines
StrategySummarizeLine(agg, fields, nstrategies) ==
  IF Len(fields) < 5 THEN [agg EXCEPT !.exc = "IndexError"]
  ELSE IF ~IntOk(fields[5]) THEN [agg EXCEPT !.exc = "ValueError"]
  ELSE StrategyFrom(agg, fields, 0, nstrategies, fields[5].n)

ForStrategy(n) ==
  [name     |-> strategies[n + 1],
   steps    |-> steps[n + 1],
   per_step |-> per_step[n + 1],
   total    |-> total[n + 1],
   by_solutions |->
     [num_solutions \in DOMAIN detailed[n + 1] |->
        [steps    |-> detailed[n + 1][num_solutions].steps,
         per_step |-> detailed[n + 1][num_solutions].per_step,
         overall  |-> detailed[n + 1][num_solutions].overall,
         by_steps |-> SortedItems(detailed[n + 1][num_solutions].by_steps)]]]

StrategyData ==
  [when  |-> mtime,
   count |-> count_formatted(steps[1]),
   strategies |-> [i \in 1..Len(strategies) |-> ForStrategy(i - 1)]]

\* ---- input files of the strategy summarizer
BaseCols == <<Col("Start", ""), Col("End", ""), Col("Seed", ""), Col("Puzzle", ""),
              Col("Num Solutions", "")>>
StrategyCols(ids) ==
  IF ids = <<>> THEN <<>>
  ELSE <<Col(ids[1], "Num Steps"), Col(ids[1], "Micros")>>
       \o (IF Len(ids) > 1 THEN <<Col(ids[2], "Num Steps"), Col(ids[2], "Micros")>> ELSE <<>>)

StrategyHeads ==
  { FileHead(0, FALSE, -1, <<>>),                    \* empty file
    FileHead(2, FALSE, -1, BaseCols \o StrategyCols(<<"Simple">>)),   \* no marker line
    FileHead(1, TRUE, -1, <<>>),                     \* the marker line and nothing else
    FileHead(2, TRUE, -1, BaseCols),                 \* no ":Num Steps" column
    FileHead(2, TRUE, -1, BaseCols \o StrategyCols(<<"Simple">>)),
    FileHead(2, TRUE, -1, BaseCols \o StrategyCols(<<"Simple", "Fast">>)),
    \* a last column "Fast:Num Steps\n" does not end with ":Num Steps"
    FileHead(2, TRUE, -1, BaseCols \o StrategyCols(<<"Simple">>) \o <<Col("Fast", "Num Steps")>>) }

StepsMicros == { <<IntF(0), DecF(10, 1)>>, <<IntF(2), DecF(10, 1)>>, <<IntF(2), DecF(25, 2)>> }

BasePrefix(sol) == <<TxtF(0), TxtF(0), TxtF(0), TxtF(0), IntF(sol)>>

StrategyBase(n) ==
  IF n = 0 THEN { BasePrefix(sol) : sol \in {1, 2} }
  ELSE IF n = 1 THEN { BasePrefix(sol) \o a : sol \in {1, 2}, a \in StepsMicros }
  ELSE { BasePrefix(sol) \o a \o b : sol \in {1, 2}, a \in StepsMicros, b \in StepsMicros }

\* the lines from which the malformed ones are made
StrategySeed(n) ==
  IF n = 0 THEN { BasePrefix(1) }
  ELSE IF n = 1 THEN { BasePrefix(1) \o a : a \in StepsMicros }
  ELSE { BasePrefix(1) \o a \o a : a \in StepsMicros }

DropLast(fields) == SubSeq(fields, 1, Len(fields) - 1)
Replace(fields, i, f) == [fields EXCEPT ![i] = f]

StrategyMalformed(n) ==
  UNION { { DropLast(l),                        \* one field fewer
            l \o <<TxtF(1)>>,                   \* one field more
            Replace(l, 5, TxtF(1)),             \* solutions: not a number
            Replace(l, Len(l), TxtF(1)),        \* last field: not a number
            Replace(l, 2 * n + 4, DecF(5, 2)) } \* last integer field: "2.5"
          : l \in StrategySeed(n) }

StrategyLines(n) == StrategyBase(n) \cup StrategyMalformed(n)

\* the schema requires baseColumns + dimensionCount * columnsPerGroup fields
StrategyFieldCount(n) == 5 + 2 * n

StrategyAgg ==
  [detailed |-> detailed, steps |-> steps, per_step |-> per_step, total |-> total,
   exc |-> "none"]

\* the lists SummarizeLines starts with
StrategyStart(nstrategies) ==
  [detailed |-> [i \in 1..nstrategies |-> EmptyDict],
   steps    |-> [i \in 1..nstrategies |-> RunningStat],
   per_step |-> [i \in 1..nstrategies |-> RunningStat],
   total    |-> [i \in 1..nstrategies |-> RunningStat],
   exc      |-> "none"]

\* ConstructData up to the first iteration of the loop of SummarizeLines
StrategyHeader ==
  /\ prog = "strategy" /\ pc = "start"
  /\ \E h \in StrategyHeads :
       /\ head' = h
       /\ IF HeadOutcome(h) = "none"
          THEN LET names == IdsWithTag(h.cols, "Num Steps")
                   nstrategies == Len(names) IN
               /\ strategies' = names
               /\ detailed' = StrategyStart(nstrategies).detailed
               /\ steps' = StrategyStart(nstrategies).steps
               /\ per_step' = StrategyStart(nstrategies).per_step
               /\ total' = StrategyStart(nstrategies).total
               /\ pc' = "summarize" /\ exc' = "none"
          ELSE /\ pc' = IF HeadOutcome(h) = "Usage" THEN "exit1" ELSE "raised"
               /\ exc' = HeadOutcome(h)
               /\ UNCHANGED <<strategies, detailed, steps, per_step, total>>
  /\ UNCHANGED <<consumed, generatorIds, max_solns, symmetries, generators, all,
                 data, written, statVars, pathVars, prog>>

\* one iteration of the loop of SummarizeLines
StrategyLine ==
  /\ prog = "strategy" /\ pc = "summarize"
  /\ Len(consumed) < MaxLines
  /\ \E fields \in StrategyLines(Len(strategies)) :
       LET r == StrategySummarizeLine(StrategyAgg, fields, Len(strategies)) IN
       /\ consumed' = Append(consumed, fields)
       /\ detailed' = r.detailed /\ steps' = r.steps
       /\ per_step' = r.per_step /\ total' = r.total
       /\ exc' = r.exc
       /\ pc' = IF r.exc = "none" THEN "summarize" ELSE "raised"
  /\ UNCHANGED <<head, schemaVars, symmetries, generators, all, data, written,
                 statVars, pathVars, prog>>

\* the file is exhausted: ConstructData builds the dict it returns
StrategyConstruct ==
  /\ prog = "strategy" /\ pc = "summarize"
  /\ IF Len(strategies) = 0
     THEN pc' = "raised" /\ exc' = "IndexError" /\ UNCHANGED data   \* summaries[0]
     ELSE pc' = "constructed" /\ data' = StrategyData /\ UNCHANGED exc
  /\ UNCHANGED <<head, consumed, schemaVars, aggVars, written, statVars, pathVars, prog>>

-----------------------------------------------------------------------------
(* SudokuStats summarize.py                                                *)

\* the texts used as symmetry and generator ids; a text field TxtF(r) used
\* as a dict key is keyed by r, and the keys in use, 1 and 2, sort as their
\* texts do
IdText(r) == IF r = 1 THEN "classic" ELSE IF r = 2 THEN "rotational_4" ELSE "x"

\* " ".join([w.capitalize() for w in id.split("_")]), on the ids in use
ToName(id) ==
  CASE id = "classic" -> "Classic"
    [] id = "rotational_4" -> "Rotational 4"
    [] id = "simple" -> "Simple"
    [] id = "subtractive_random" -> "Subtractive Random"
    [] OTHER -> "X"

GenStat == [time |-> RunningStat, clues |-> RunningStat]
\* as GenAllStats, with one comparison cell too few
GenAllStatsShort(ngenerators) ==
  [overall |-> GenStat, by_generator |-> [i \in 1..(ngenerators - 1) |-> GenStat]]

GenAllStats(ngenerators) ==
  [overall |-> GenStat, by_generator |-> [i \in 1..ngenerators |-> GenStat]]

AppendStat(st, t, c) == [time |-> append(st.time, t), clues |-> append(st.clues, c)]

\* time = [float(fields[n]) / 1000.0 for n in range(3, len(fields), 2)]
TimeIdx(fields)  == Range2(3, Len(fields))
TimeOk(fields)   == \A j \in DOMAIN TimeIdx(fields) : FloatOk(fields[TimeIdx(fields)[j] + 1])
TimeOf(fields)   ==
  [j \in DOMAIN TimeIdx(fields) |-> RDiv(float(fields[TimeIdx(fields)[j] + 1]), Rat(1000))]
\* clues = [int(fields[n]) for n in range(2, len(fields), 2)]
CluesIdx(fields) == Range2(2, Len(fields))
CluesOk(fields)  == \A j \in DOMAIN CluesIdx(fields) : IntOk(fields[CluesIdx(fields)[j] + 1])
CluesOf(fields)  == [j \in DOMAIN CluesIdx(fields) |-> fields[CluesIdx(fields)[j] + 1].n]

\* as CompareFrom, with the comparison of a generator with itself left out
RECURSIVE CompareFromOthers(_, _, _, _, _, _)
CompareFromOthers(agg, time, clues, n, m, ngenerators) ==
  IF m >= ngenerators THEN agg
  ELSE IF m >= Len(time) THEN [agg EXCEPT !.exc = "IndexError"]
  ELSE CompareFromOthers(
         IF m = n THEN agg
         ELSE [agg EXCEPT !.generators[n + 1].by_generator[m + 1] =
                 AppendStat(@, RSub(time[n + 1], time[m + 1]), Rat(clues[n + 1] - clues[m + 1]))],
         time, clues, n, m + 1, ngenerators)

\* `for m in range(ngenerators)` from m on, for generator n
RECURSIVE CompareFrom(_, _, _, _, _, _)
CompareFrom(agg, time, clues, n, m, ngenerators) ==
  IF m >= ngenerators THEN agg
  ELSE IF m >= Len(time) THEN [agg EXCEPT !.exc = "IndexError"]
  ELSE CompareFrom(
         [agg EXCEPT !.generators[n + 1].by_generator[m + 1] =
            AppendStat(@, RSub(time[n + 1], time[m + 1]), Rat(clues[n + 1] - clues[m + 1]))],
         time, clues, n, m + 1, ngenerators)

\* `for n in range(ngenerators)` from n on; stops at the first exception
RECURSIVE GeneratorFrom(_, _, _, _, _, _)
GeneratorFrom(agg, symmetry, time, clues, n, ngenerators) ==
  IF n >= ngenerators THEN agg
  ELSE
    LET olds == Get(agg.symmetries, symmetry, GenAllStats(ngenerators)) IN
    \* symmetries[symmetry] is looked up (and created) before time[n] is
    IF n >= Len(time)
    THEN [agg EXCEPT !.symmetries = Put(@, symmetry, olds), !.exc = "IndexError"]
    ELSE
      LET news == [overall |-> AppendStat(olds.overall, time[n + 1], Rat(clues[n + 1])),
                   by_generator |-> [olds.by_generator EXCEPT ![n + 1] =
                                       AppendStat(@, time[n + 1], Rat(clues[n + 1]))]]
          a1 == [agg EXCEPT !.symmetries = Put(@, symmetry, news),
                            !.generators[n + 1].overall =
                               AppendStat(@, time[n + 1], Rat(clues[n + 1]))]
          a2 == CompareFrom(a1, time, clues, n, 0, ngenerators)
      IN  IF a2.exc # "none" THEN a2
          ELSE GeneratorFrom(a2, symmetry, time, clues, n + 1, ngenerators)

\* one iteration of `for line in lines` of SummarizeLines
GeneratorSummarizeLine(agg, fields, ngenerators) ==
  IF ~TimeOk(fields) \/ ~CluesOk(fields) THEN [agg EXCEPT !.exc = "ValueError"]
  ELSE GeneratorFrom(agg, fields[1].n, TimeOf(fields), CluesOf(fields), 0, ngenerators)

Generator(n) ==
  [name  |-> ToName(generatorIds[n + 1]),
   time  |-> generators[n + 1].overall.time,
   clues |-> generators[n + 1].overall.clues,
   by_generator |-> generators[n + 1].by_generator]

Symmetry(id) ==
  [name  |-> ToName(IdText(id)),
   time  |-> symmetries[id].overall.time,
   clues |-> symmetries[id].overall.clues,
   by_generator |-> symmetries[id].by_generator]

GeneratorData ==
  [count |-> count_formatted(generators[1].overall.time),
   when  |-> mtime,
   generators |-> [i \in 1..Len(generatorIds) |-> Generator(i - 1)],
   symmetries |-> [i \in 1..Len(SortedKeys(symmetries)) |-> Symmetry(SortedKeys(symmetries)[i])]]

\* ---- input files of the generator summarizer
GenBaseCols == <<Col("Symmetry", ""), Col("Seed", "")>>
GeneratorCols(ids) ==
  IF ids = <<>> THEN <<>>
  ELSE <<Col(ids[1], "Num Clues"), Col(ids[1], "Micros")>>
       \o (IF Len(ids) > 1 THEN <<Col(ids[2], "Num Clues"), Col(ids[2], "Micros")>> ELSE <<>>)

GeneratorHeads ==
  { FileHead(0, FALSE, -1, <<>>),
    FileHead(2, FALSE, -1, GenBaseCols \o GeneratorCols(<<"simple">>)),
    FileHead(1, TRUE, -1, <<>>),
    FileHead(2, TRUE, -1, GenBaseCols),
    FileHead(2, TRUE, -1, GenBaseCols \o GeneratorCols(<<"simple">>)),
    FileHead(2, TRUE, -1, GenBaseCols \o GeneratorCols(<<"simple", "subtractive_random">>)) }

CluesMicros == { <<IntF(20), DecF(1000, 1)>>, <<IntF(25), DecF(1000, 1)>>,
                 <<IntF(25), DecF(2500, 1)>> }

GenPrefix(sym) == <<TxtF(sym), TxtF(0)>>

GeneratorBase(n) ==
  IF n = 0 THEN { GenPrefix(sym) : sym \in {1, 2} }
  ELSE IF n = 1 THEN { GenPrefix(sym) \o a : sym \in {1, 2}, a \in CluesMicros }
  ELSE { GenPrefix(sym) \o a \o b : sym \in {1, 2}, a \in CluesMicros, b \in CluesMicros }

GeneratorSeed(n) ==
  IF n = 0 THEN { GenPrefix(1) }
  ELSE IF n = 1 THEN { GenPrefix(1) \o a : a \in CluesMicros }
  ELSE { GenPrefix(1) \o a \o a : a \in CluesMicros }

GeneratorMalformed(n) ==
  UNION { { DropLast(l),                        \* one field fewer
            l \o <<IntF(7)>>,                   \* one field more, a number
            l \o <<TxtF(1)>>,                   \* one field more, not a number
            Replace(l, Len(l), TxtF(1)),        \* last field: not a number
            Replace(l, 2 * n + 1, DecF(5, 2)) } \* last integer field: "2.5"
          : l \in GeneratorSeed(n) }

GeneratorLines(n) == GeneratorBase(n) \cup GeneratorMalformed(n)

GeneratorFieldCount(n) == 2 + 2 * n

GeneratorAgg == [symmetries |-> symmetries, generators |-> generators, exc |-> "none"]

\* the dict and the list SummarizeLines starts with
GeneratorStart(ngenerators) ==
  [symmetries |-> EmptyDict,
   generators |-> [i \in 1..ngenerators |-> GenAllStats(ngenerators)],
   exc        |-> "none"]

GeneratorHeader ==
  /\ prog = "generator" /\ pc = "start"
  /\ \E h \in GeneratorHeads :
       /\ head' = h
       /\ IF HeadOutcome(h) = "none"
          THEN LET ids == IdsWithTag(h.cols, "Num Clues")
                   ngenerators == Len(ids) IN
               /\ generatorIds' = ids
               /\ symmetries' = GeneratorStart(ngenerators).symmetries
               /\ generators' = GeneratorStart(ngenerators).generators
               /\ pc' = "summarize" /\ exc' = "none"
          ELSE /\ pc' = IF HeadOutcome(h) = "Usage" THEN "exit1" ELSE "raised"
               /\ exc' = HeadOutcome(h)
               /\ UNCHANGED <<generatorIds, symmetries, generators>>
  /\ UNCHANGED <<consumed, strategies, max_solns, detailed, steps, per_step, total, all,
                 data, written, statVars, pathVars, prog>>

GeneratorLine ==
  /\ prog = "generator" /\ pc = "summarize"
  /\ Len(consumed) < MaxLines
  /\ \E fields \in GeneratorLines(Len(generatorIds)) :
       LET r == GeneratorSummarizeLine(GeneratorAgg, fields, Len(generatorIds)) IN
       /\ consumed' = Append(consumed, fields)
       /\ symmetries' = r.symmetries /\ generators' = r.generators
       /\ exc' = r.exc
       /\ pc' = IF r.exc = "none" THEN "summarize" ELSE "raised"
  /\ UNCHANGED <<head, schemaVars, detailed, steps, per_step, total, all, data, written,
                 statVars, pathVars, prog>>

GeneratorConstruct ==
  /\ prog = "generator" /\ pc = "summarize"
  /\ IF Len(generatorIds) = 0
     THEN pc' = "raised" /\ exc' = "IndexError" /\ UNCHANGED data   \* generators[0]
     ELSE pc' = "constructed" /\ data' = GeneratorData /\ UNCHANGED exc
  /\ UNCHANGED <<head, consumed, schemaVars, aggVars, written, statVars, pathVars, prog>>

-----------------------------------------------------------------------------
(* improper.py                                                             *)

ImpStat == [solns |-> RunningStat, holes |-> RunningStat]
ImpAllStats(max) == [overall |-> ImpStat, by_solns |-> [i \in 1..max |-> ImpStat]]

ImpAppend(st, solns, holes) ==
  [solns |-> append(st.solns, Rat(solns)), holes |-> append(st.holes, Rat(holes))]

\* Python list indexing: lst[i] for a list of length n; a negative index
\* counts from the end.  The 1-based position, 0 when it raises IndexError
ListPos(i, n) ==
  IF 0 <= i /\ i < n THEN i + 1
  ELSE IF -n <= i /\ i < 0 THEN i + n + 1
  ELSE 0

InBucket(st, pos, solns, holes) ==
  [overall  |-> ImpAppend(st.overall, solns, holes),
   by_solns |-> [st.by_solns EXCEPT ![pos] = ImpAppend(@, solns, holes)]]

\* one iteration of `for line in lines` of SummarizeLines
ImproperSummarizeLine(agg, fields, max) ==
  IF Len(fields) < 2 THEN [agg EXCEPT !.exc = "IndexError"]
  ELSE IF ~IntOk(fields[2]) THEN [agg EXCEPT !.exc = "ValueError"]
  ELSE IF Len(fields) < 3 THEN [agg EXCEPT !.exc = "IndexError"]
  ELSE IF ~IntOk(fields[3]) THEN [agg EXCEPT !.exc = "ValueError"]
  ELSE
    LET symmetry == fields[1].n
        solns == fields[2].n
        holes == fields[3].n
        solns_index == solns - 1
        pos == ListPos(solns_index, max)
    IN  IF pos = 0
        THEN [agg EXCEPT !.all.overall = ImpAppend(@, solns, holes), !.exc = "IndexError"]
        ELSE [all |-> InBucket(agg.all, pos, solns, holes),
              symmetries |-> Put(agg.symmetries, symmetry,
                                 InBucket(Get(agg.symmetries, symmetry, ImpAllStats(max)),
                                          pos, solns, holes)),
              exc |-> "none"]

ImpSymmetry(id) ==
  [name  |-> IdText(id),
   solns |-> symmetries[id].overall.solns,
   holes |-> symmetries[id].overall.holes,
   by_solns |-> symmetries[id].by_solns]

ImproperData ==
  [summary |-> head,
   when  |-> mtime,
   count |-> count_formatted(all.overall.solns),
   all   |-> all,
   symmetries |-> [i \in 1..Len(SortedKeys(symmetries)) |-> ImpSymmetry(SortedKeys(symmetries)[i])]]

\* ---- input files of the improper summarizer
ImpCols == <<Col("Symmetry", ""), Col("Num Solutions", ""), Col("Num Holes", "")>>

ImproperHeads ==
  { FileHead(0, FALSE, -1, <<>>),
    FileHead(2, FALSE, 2, ImpCols),
    FileHead(1, TRUE, 2, <<>>),
    FileHead(2, TRUE, -1, ImpCols),     \* no "(N," in the first line
    FileHead(2, TRUE, 0, ImpCols),
    FileHead(2, TRUE, 2, ImpCols) }

ImproperBase ==
  { <<TxtF(sym), IntF(solns), IntF(holes)>> :
      sym \in {1, 2}, solns \in {0, 1, 2, 3}, holes \in {40, 44} }

ImproperSeed == { <<TxtF(1), IntF(1), IntF(40)>>, <<TxtF(1), IntF(2), IntF(40)>> }

ImproperMalformed ==
  UNION { { DropLast(l), l \o <<TxtF(1)>>, Replace(l, 2, TxtF(1)), Replace(l, 3, DecF(5, 2)) }
          : l \in ImproperSeed }

ImproperLines == ImproperBase \cup ImproperMalformed

ImproperFieldCount == 3

ImproperAgg == [all |-> all, symmetries |-> symmetries, exc |-> "none"]

ImproperStart(max) ==
  [all |-> ImpAllStats(max), symmetries |-> EmptyDict, exc |-> "none"]

ImproperHeader ==
  /\ prog = "improper" /\ pc = "start"
  /\ \E h \in ImproperHeads :
       /\ head' = h
       /\ IF HeadOutcome(h) # "none"
          THEN /\ pc' = IF HeadOutcome(h) = "Usage" THEN "exit1" ELSE "raised"
               /\ exc' = HeadOutcome(h)
               /\ UNCHANGED <<max_solns, all, symmetries>>
          ELSE IF h.maxs < 0
          THEN /\ pc' = "raised" /\ exc' = "AttributeError"   \* re.search gave None
               /\ UNCHANGED <<max_solns, all, symmetries>>
          ELSE /\ max_solns' = h.maxs
               /\ all' = ImproperStart(h.maxs).all
               /\ symmetries' = ImproperStart(h.maxs).symmetries
               /\ pc' = "summarize" /\ exc' = "none"
  /\ UNCHANGED <<consumed, strategies, generatorIds, detailed, steps, per_step, total,
                 generators, data, written, statVars, pathVars, prog>>

ImproperLine ==
  /\ prog = "improper" /\ pc = "summarize"
  /\ Len(consumed) < MaxLines
  /\ \E fields \in ImproperLines :
       LET r == ImproperSummarizeLine(ImproperAgg, fields, max_solns) IN
       /\ consumed' = Append(consumed, fields)
       /\ all' = r.all /\ symmetries' = r.symmetries
       /\ exc' = r.exc
       /\ pc' = IF r.exc = "none" THEN "summarize" ELSE "raised"
  /\ UNCHANGED <<head, schemaVars, detailed, steps, per_step, total, generators, data,
                 written, statVars, pathVars, prog>>

ImproperConstruct ==
  /\ prog = "improper" /\ pc = "summarize"
  /\ pc' = "constructed" /\ data' = ImproperData
  /\ UNCHANGED <<exc, head, consumed, schemaVars, aggVars, written, statVars, pathVars, prog>>

-----------------------------------------------------------------------------
(* main, after ConstructData returned: the three programs agree            *)

WriteOutput ==
  /\ pc = "constructed"
  /\ written' = TRUE
  /\ pc' = "done"
  /\ UNCHANGED <<prog, exc, head, consumed, schemaVars, aggVars, data, statVars, pathVars>>

Programs == {"strategy", "generator", "improper"}

Init ==
  /\ prog \in Programs
  /\ pc = "start" /\ exc = "none" /\ head = FileHead(0, FALSE, -1, <<>>) /\ consumed = <<>>
  /\ strategies = <<>> /\ generatorIds = <<>> /\ max_solns = 0
  /\ detailed = <<>> /\ steps = <<>> /\ per_step = <<>> /\ total = <<>>
  /\ symmetries = EmptyDict /\ generators = <<>> /\ all = <<>>
  /\ data = NoData /\ written = FALSE
  /\ StatIdle /\ PathIdle

Next ==
  \/ StrategyHeader \/ StrategyLine \/ StrategyConstruct
  \/ GeneratorHeader \/ GeneratorLine \/ GeneratorConstruct
  \/ ImproperHeader \/ ImproperLine \/ ImproperConstruct
  \/ WriteOutput

Spec == Init /\ [][Next]_vars

-----------------------------------------------------------------------------
(* Properties of the summarizers                                           *)

RECURSIVE FoldAppend(_)
FoldAppend(q) ==
  IF q = <<>> THEN RunningStat ELSE append(FoldAppend(SubSeq(q, 1, Len(q) - 1)), q[Len(q)])

\* the sum of the values of a function with a finite domain
RECURSIVE SumFn(_)
SumFn(f) ==
  IF DOMAIN f = {} THEN 0
  ELSE LET x == CHOOSE y \in DOMAIN f : TRUE
       IN  f[x] + SumFn([y \in (DOMAIN f) \ {x} |-> f[y]])

Accepted == exc = "none" /\ pc \in {"summarize", "constructed", "done"}
Reported == pc \in {"constructed", "done"}
ZeroStat(st) == len(st) = 0 /\ mean(st) = Rat(0) /\ variance(st) = Rat(0)

\* the number of dimension groups the header declared
Dimensions ==
  IF prog = "strategy" THEN Len(strategies)
  ELSE IF prog = "generator" THEN Len(generatorIds)
  ELSE max_solns

\* baseColumns + dimensionCount * columnsPerGroup
RequiredFields ==
  IF prog = "strategy" THEN StrategyFieldCount(Len(strategies))
  ELSE IF prog = "generator" THEN GeneratorFieldCount(Len(generatorIds))
  ELSE ImproperFieldCount

\* ---- C2
GenTime(l, n)  == RDiv(float(l[2 * n + 4]), Rat(1000))   \* Python fields[2n + 3]
GenClues(l, n) == l[2 * n + 3].n                         \* Python fields[2n + 2]

\* C2: in the generator comparison, once the lines read were accepted, cell
\* (n, m) of generators[n].by_generator holds one accumulation of
\* value[n] - value[m] per record, for time and for clues; the diagonal cell
\* has mean 0 and variance 0 in every state.
C2_PairwiseDifferences ==
  prog = "generator" =>
    \A n \in 0..(Len(generators) - 1) : \A m \in 0..(Len(generators) - 1) :
      LET cell == generators[n + 1].by_generator[m + 1] IN
      /\ n = m => /\ mean(cell.time) = Rat(0) /\ variance(cell.time) = Rat(0)
                  /\ mean(cell.clues) = Rat(0) /\ variance(cell.clues) = Rat(0)
      /\ Accepted =>
           /\ len(cell.time) = Len(consumed) /\ len(cell.clues) = Len(consumed)
           /\ cell.time = FoldAppend([i \in 1..Len(consumed) |->
                            RSub(GenTime(consumed[i], n), GenTime(consumed[i], m))])
           /\ cell.clues = FoldAppend([i \in 1..Len(consumed) |->
                            Rat(GenClues(consumed[i], n) - GenClues(consumed[i], m))])

C2_Witness ==
  /\ prog = "generator" /\ Accepted /\ Len(generators) = 2 /\ Len(consumed) = 2
  /\ len(generators[1].by_generator[1].time) = 2
  /\ mean(generators[1].by_generator[2].time) # Rat(0)
  /\ variance(generators[2].by_generator[1].clues) # Rat(0)

\* ---- C3
LineSolutions(l) == l[5].n            \* Python fields[4]
LineSteps(l, n)  == l[2 * n + 6].n    \* Python fields[2n + 5]
LineMicros(l, n) == float(l[2 * n + 7])

MicrosWhere(n, P(_)) ==
  LET keep == SelectSeq(consumed, P) IN [i \in 1..Len(keep) |-> LineMicros(keep[i], n)]

\* C3: for every strategy n the timing of each record is observed once by
\* total[n], once by detailed[n][num_solutions].overall and once by
\* detailed[n][num_solutions].by_steps[num_steps]: the three counts agree in
\* every state, and once the lines read were accepted each engine holds
\* exactly the records of its path, accumulated and never overwritten.
C3_FanOutCounts ==
  prog = "strategy" =>
    \A n \in 0..(Len(total) - 1) :
      LET d == detailed[n + 1]
          OverallK == [sol \in DOMAIN d |-> len(d[sol].overall)]
          ByStepsK == [sol \in DOMAIN d |->
                         SumFn([st \in DOMAIN d[sol].by_steps |-> len(d[sol].by_steps[st])])]
      IN
      /\ len(total[n + 1]) = SumFn(OverallK)
      /\ len(total[n + 1]) = SumFn(ByStepsK)
      /\ Accepted =>
           /\ len(total[n + 1]) = Len(consumed)
           /\ total[n + 1] = FoldAppend(MicrosWhere(n, LAMBDA l : TRUE))
           /\ \A sol \in DOMAIN d :
                /\ d[sol].overall = FoldAppend(MicrosWhere(n, LAMBDA l : LineSolutions(l) = sol))
                /\ \A st \in DOMAIN d[sol].by_steps :
                     d[sol].by_steps[st] =
                       FoldAppend(MicrosWhere(n, LAMBDA l : LineSolutions(l) = sol
                                                           /\ LineSteps(l, n) = st))

C3_Witness ==
  /\ prog = "strategy" /\ Accepted /\ Len(total) = 2 /\ Len(consumed) = 2
  /\ 1 \in DOMAIN detailed[1] /\ 2 \in DOMAIN detailed[1][1].by_steps
  /\ len(detailed[1][1].by_steps[2]) = 2
  /\ variance(detailed[1][1].by_steps[2]) # Rat(0)
  /\ DOMAIN detailed[2] = {1} /\ DOMAIN detailed[2][1].by_steps = {0, 2}

\* ---- C5
\* a number is expected in Python fields[4 .. 4 + 2 * nstrategies]
StrategyNonNumeric(l) ==
  \E i \in 5..(5 + 2 * Len(strategies)) : i <= Len(l) /\ l[i].t = "txt"

StrategyMalformedLine(l) ==
  Len(l) = StrategyFieldCount(Len(strategies)) - 1 \/ StrategyNonNumeric(l)

\* C5: in the strategy summarizer a malformed body line (one field fewer than
\* the schema requires, or text that is no number where a number is expected)
\* is the last line read: the run is aborted there by the exception and the
\* output file is never written; the output file is written only after every
\* line read was accumulated for every strategy.
C5_ParseErrorAborts ==
  prog = "strategy" =>
    /\ \A i \in 1..Len(consumed) :
         StrategyMalformedLine(consumed[i]) =>
           i = Len(consumed) /\ pc = "raised" /\ exc \in {"IndexError", "ValueError"}
    /\ pc = "raised" => ~written /\ data = NoData
    /\ written =>
         /\ pc = "done" /\ exc = "none"
         /\ \A n \in 1..Len(total) : len(total[n]) = Len(consumed)

C5_Witness ==
  /\ prog = "strategy" /\ Len(strategies) = 2 /\ Len(consumed) = 2
  /\ Len(consumed[1]) = 9 /\ Len(consumed[2]) = 8
  /\ pc = "raised" /\ exc = "IndexError" /\ ~written
  /\ len(total[1]) = 2 /\ len(total[2]) = 1

\* ---- C8
StrategyStats ==
  UNION { {steps[n], per_step[n], total[n]} : n \in 1..Len(total) }
GeneratorStats ==
  UNION { {generators[n].overall.time, generators[n].overall.clues}
          \cup UNION { {generators[n].by_generator[m].time, generators[n].by_generator[m].clues}
                       : m \in 1..Len(generators) }
          : n \in 1..Len(generators) }
\* the engines every record is accumulated into
FullEngines ==
  IF prog = "strategy" THEN StrategyStats
  ELSE IF prog = "generator" THEN GeneratorStats
  ELSE {all.overall.solns, all.overall.holes}

\* the statistics of a report made from no record
EmptyReportStats ==
  IF prog = "strategy"
  THEN UNION { {data.strategies[n].steps, data.strategies[n].per_step, data.strategies[n].total}
               : n \in 1..Len(data.strategies) }
  ELSE IF prog = "generator"
  THEN UNION { {data.generators[n].time, data.generators[n].clues}
               \cup UNION { {data.generators[n].by_generator[m].time,
                             data.generators[n].by_generator[m].clues}
                            : m \in 1..Len(data.generators[n].by_generator) }
               : n \in 1..Len(data.generators) }
  ELSE {data.all.overall.solns, data.all.overall.holes}
       \cup UNION { {data.all.by_solns[i].solns, data.all.by_solns[i].holes}
                    : i \in 1..Len(data.all.by_solns) }

\* C8: the report built from a valid header and k accepted body lines has the
\* top-level count k, which is the count of every engine that each record is
\* accumulated into; built from no body line, its count reads 0, it lists no
\* by-solutions entry and no symmetry, and its statistics have mean 0 and
\* variance 0.
C8_ReportCount ==
  Reported =>
    /\ data.count = ToString(Len(consumed))
    /\ \A st \in FullEngines : len(st) = Len(consumed)
    /\ consumed = <<>> =>
         /\ data.count = "0"
         /\ \A st \in EmptyReportStats : mean(st) = Rat(0) /\ variance(st) = Rat(0)
         /\ prog = "strategy" =>
              \A n \in 1..Len(data.strategies) : DOMAIN data.strategies[n].by_solutions = {}
         /\ prog # "strategy" => data.symmetries = <<>>

C8_Witness ==
  /\ pc = "done" /\ written /\ prog = "generator" /\ Len(generatorIds) = 2
  /\ Len(consumed) = 2 /\ data.count = "2"
  /\ len(data.generators[2].clues) = 2

\* ---- C4
\* the header declared a group (a strategy, a generator).  Without one the
\* loop of SummarizeLines has nothing to index and ConstructData raises
\* IndexError after the loop
HeaderHasGroups == prog = "improper" \/ Dimensions >= 1

\* C4: a body line whose field count differs from the required one, with
\* fewer or with more fields, is a parse error that aborts the run at that
\* line, so that none of its values gets into a report.
C4_AnyMismatchAborts ==
  HeaderHasGroups =>
    \A i \in 1..Len(consumed) :
      Len(consumed[i]) # RequiredFields => i = Len(consumed) /\ pc = "raised"


\* ---- C6
Recognizable(h) ==
  /\ h.lines = 2 /\ h.marker
  /\ IdsWithTag(h.cols, IF prog = "strategy" THEN "Num Steps" ELSE "Num Clues") # <<>>

\* C6: with no recognizable header (no marker line, no column with the
\* dimension suffix, or an empty input) ConstructData fails before any body
\* record is read and before any output is written.
C6_NoHeaderNoRecordRead ==
  (prog \in {"strategy", "generator"} /\ pc # "start" /\ ~Recognizable(head)) =>
    consumed = <<>> /\ ~written /\ data = NoData

\* ---- C7
ObservedSolutions == { LineSolutions(consumed[i]) : i \in 1..Len(consumed) }
ObservedSteps(n, sol) ==
  { LineSteps(consumed[i], n) : i \in { j \in 1..Len(consumed) : LineSolutions(consumed[j]) = sol } }
ObservedSymmetries == { consumed[i][1].n : i \in 1..Len(consumed) }
KnownSolutions == {1, 2}

\* the records Python's indexing puts in by_solns[i - 1]
InBucketOf(i, sym) ==
  { j \in 1..Len(consumed) :
      /\ consumed[j][2].n \in {i, i - max_solns}
      /\ sym # 0 => consumed[j][1].n = sym }

ImpBucketsOk(by_solns, sym) ==
  /\ Len(by_solns) = max_solns
  /\ \A i \in 1..Len(by_solns) :
       InBucketOf(i, sym) = {} => ZeroStat(by_solns[i].solns) /\ ZeroStat(by_solns[i].holes)

\* C7 as stated: every combination appears in the report, seen or not: each
\* solution count under each strategy, each generator pair, each
\* solution-count bucket.
C7_EveryCombinationReported ==
  Reported =>
    /\ prog = "strategy" =>
         \A n \in 1..Len(data.strategies) : \A sol \in KnownSolutions :
           sol \in DOMAIN data.strategies[n].by_solutions
    /\ prog = "generator" =>
         \A n \in 1..Len(generatorIds) : Len(data.generators[n].by_generator) = Len(generatorIds)
    /\ prog = "improper" => Len(data.all.by_solns) = max_solns

\* C7 amended: the report has an entry for every combination the summarizer
\* allocates from the schema (each strategy, each generator pair, each of the
\* max_solns buckets of the overall grouping and of every symmetry seen), an
\* empty statistic (count 0, mean 0, variance 0) where no record was
\* accumulated; groupings keyed by the data are listed for the keys seen only:
\* the solution counts and step counts of a strategy, and the symmetries.
C7_AllocatedCombinationsReported ==
  Reported =>
    /\ prog = "strategy" =>
         /\ Len(data.strategies) = Len(strategies)
         /\ \A n \in 1..Len(data.strategies) :
              LET by == data.strategies[n].by_solutions IN
              /\ DOMAIN by = ObservedSolutions
              /\ \A sol \in DOMAIN by :
                   { by[sol].by_steps[i][1] : i \in 1..Len(by[sol].by_steps) }
                     = ObservedSteps(n - 1, sol)
              /\ consumed = <<>> => ZeroStat(data.strategies[n].total)
    /\ prog = "generator" =>
         /\ Len(data.generators) = Len(generatorIds)
         /\ \A n \in 1..Len(data.generators) :
              /\ Len(data.generators[n].by_generator) = Len(generatorIds)
              /\ consumed = <<>> =>
                   \A m \in 1..Len(generatorIds) :
                     /\ ZeroStat(data.generators[n].by_generator[m].time)
                     /\ ZeroStat(data.generators[n].by_generator[m].clues)
         /\ Len(data.symmetries) = Cardinality(ObservedSymmetries)
         /\ \A i \in 1..Len(data.symmetries) :
              Len(data.symmetries[i].by_generator) = Len(generatorIds)
    /\ prog = "improper" =>
         /\ ImpBucketsOk(data.all.by_solns, 0)
         /\ Len(data.symmetries) = Cardinality(ObservedSymmetries)
         /\ \A i \in 1..Len(data.symmetries) :
              ImpBucketsOk(data.symmetries[i].by_solns, SortedKeysOf(ObservedSymmetries)[i])

C7_Witness ==
  /\ prog = "strategy" /\ pc = "done" /\ Len(strategies) = 2 /\ Len(consumed) = 2
  /\ DOMAIN data.strategies[1].by_solutions = {2}
  /\ Len(data.strategies[2].by_solutions[2].by_steps) = 1

\* ---- C9
SolnsCount(i, sym) ==
  Cardinality({ j \in 1..Len(consumed) :
                  consumed[j][2].n = i /\ (sym # 0 => consumed[j][1].n = sym) })

\* C9: once the lines read were accepted, by_solns[i] (overall, and of every
\* symmetry) has accumulated exactly the records whose solution count is
\* i + 1; a record with a solution count outside 1..max_solns is in no bucket.
C9_BucketHoldsItsSolutionCount ==
  (prog = "improper" /\ Accepted) =>
    \A i \in 1..max_solns :
      /\ len(all.by_solns[i].solns) = SolnsCount(i, 0)
      /\ \A sym \in DOMAIN symmetries :
           len(symmetries[sym].by_solns[i].solns) = SolnsCount(i, sym)

=============================================================================
